---- MODULE Spec2Model ----
(***************************************************************************)
(* Model of src/main.py: the /ws endpoint that relays client audio frames  *)
(* to an upstream speech-recognition websocket and relays transcripts      *)
(* back, one upstream connection per utterance.                            *)
(*                                                                         *)
(* One handler coroutine (websocket_endpoint) runs per client connection.  *)
(* Its position is pc[c]; each action below is the code the coroutine (or  *)
(* one of the two tasks it creates) runs between two suspension points.    *)
(* The client and the upstream service are the environment.                *)
(***************************************************************************)
EXTENDS Integers, Sequences, FiniteSets, TLC

\* ---------------------------------------------------------------- bounds
MaxClientMsgs == 3      \* frames (text or binary) one client sends in a run
MaxUpstreamMsgs == 2    \* messages the upstream service sends to one client's sessions
MaxSessions == 2        \* start signals one client sends in a run
MaxInbox == 1           \* client frames received and not yet read by the handler

Clients == {1, 2}

\* ---------------------------------------------------------------- values
\* What the client can put on the wire.
TextFrame(json, action) == [t |-> "text", json |-> json, action |-> action, frame |-> 0]
BytesFrame(f) == [t |-> "bytes", json |-> "-", action |-> "-", frame |-> f]
DisconnectEvent == [t |-> "disconnect", json |-> "-", action |-> "-", frame |-> 0]

StartSignal == TextFrame("object", "start_transcription")
ClientTexts ==
    { StartSignal,
      TextFrame("object", "stop"),       \* {"action": "stop"}; also stands for {} (data.get gives None)
      TextFrame("array", "-"),           \* [1]  (valid JSON, not an object)
      TextFrame("garbage", "-") }        \* not JSON at all

\* Characters of a transcript: a blank and a letter are enough for strip().
Blank == " "

\* An upstream websocket message as aiohttp yields it. For a TEXT message the
\* payload is described by: json ("object" or "garbage"), whether the object
\* has "channel", the list of the alternatives' transcripts, and "is_final"
\* (has_final says the key is there).
UpMsg(type, json, has_channel, alts, has_final, is_final) ==
    [type |-> type, json |-> json, has_channel |-> has_channel, alts |-> alts,
     has_final |-> has_final, is_final |-> is_final]
UpText(alts, has_final, is_final) == UpMsg("TEXT", "object", TRUE, alts, has_final, is_final)
UpGarbage == UpMsg("TEXT", "garbage", FALSE, <<>>, FALSE, FALSE)
UpNoChannel == UpMsg("TEXT", "object", FALSE, <<>>, TRUE, TRUE)
UpNoAlternative == UpMsg("TEXT", "object", TRUE, <<>>, FALSE, FALSE)
UpBinary == UpMsg("BINARY", "-", FALSE, <<>>, FALSE, FALSE)
UpClose == UpMsg("CLOSED", "-", FALSE, <<>>, FALSE, FALSE)
UpError == UpMsg("ERROR", "-", FALSE, <<>>, FALSE, FALSE)
NoMsg == UpMsg("NONE", "-", FALSE, <<>>, FALSE, FALSE)   \* nothing read yet

UpstreamMsgs ==
    { UpText(<< <<"a">> >>, TRUE, TRUE),
      UpText(<< <<"a">> >>, TRUE, FALSE),
      UpText(<< <<Blank, "a">>, <<>> >>, FALSE, FALSE),
      UpText(<< <<Blank>>, <<"a">> >>, TRUE, TRUE),
      UpText(<< <<>> >>, TRUE, FALSE),
      UpGarbage, UpNoChannel, UpNoAlternative, UpBinary, UpClose, UpError }


\* ---------------------------------------------------------------- state
VARIABLES
    pc,             \* pc[c]: where the handler of client c is suspended
    exc,            \* exc[c]: the exception propagating out of the session / caught by the outer try
    inbox,          \* inbox[c]: client frames received by the server, not yet read by the handler
    clientGone,     \* clientGone[c]: the client has disconnected
    sessions,       \* sessions[c]: the utterance sessions of client c, oldest first
    receiver_task,  \* receiver_task[c]: index of the session the local receiver_task belongs to, 0 = unbound
    client_data_task, \* client_data_task[c]: the task wrapping websocket.receive_bytes()
    upq,            \* upq[c]: upstream messages not yet read from the current dg_ws
    nClient,        \* nClient[c]: frames the client has sent
    nUp             \* nUp[c]: messages upstream has sent

vars == <<pc, exc, inbox, clientGone, sessions, receiver_task, client_data_task,
          upq, nClient, nUp>>

NoTask == [st |-> "none", frame |-> 0, exc |-> "none"]
PendingTask == [st |-> "pending", frame |-> 0, exc |-> "none"]

\* A session that starts with the upstream connection and relay task of an
\* earlier one instead of `dg_ws = None`: the fault C17 guards against.
NewSession_reused ==
    [http |-> "open", releases |-> 0, dg |-> "open", relay |-> "running",
     recvd |-> <<>>, sent |-> <<>>, nread |-> 0, last |-> NoMsg, out |-> <<>>]

\* A session as created at lines 72-73: dg_ws = None, a fresh aiohttp.ClientSession().
\*   http, releases  the ClientSession and the number of close() calls on it
\*   dg              the upstream connection dg_ws
\*   relay           the task running deepgram_to_client_receiver
\*   recvd, sent     binary frames taken from the client / sent upstream
\*   nread, last     upstream messages the relay has read: how many, and the newest
\*   out             the notifications the relay handed to client_ws.send_json
NewSession ==
    [http |-> "open", releases |-> 0, dg |-> "none", relay |-> "none",
     recvd |-> <<>>, sent |-> <<>>, nread |-> 0, last |-> NoMsg, out |-> <<>>]

Cur(c) == Len(sessions[c])
CurS(c) == sessions[c][Cur(c)]
Last(q) == q[Len(q)]
SetCur(c, s) == [sessions EXCEPT ![c] = [@ EXCEPT ![Cur(c)] = s]]

\* ---------------------------------------------------------------- the relay
\* strip() with the trimming left out: the fault C10 guards against.
strip_nothing(t) == t

\* line 40, str.strip(): leading and trailing blanks removed.
RECURSIVE lstrip(_)
lstrip(t) == IF t # <<>> /\ Head(t) = Blank THEN lstrip(Tail(t)) ELSE t
RECURSIVE rstrip(_)
rstrip(t) == IF t # <<>> /\ Last(t) = Blank THEN rstrip(SubSeq(t, 1, Len(t) - 1)) ELSE t
strip(t) == rstrip(lstrip(t))

\* line 36: json.loads(msg.data) raises on a payload that is not JSON.
json_loads_raises(m) == m.json # "object"

\* line 37: response.get("channel", {}).get("alternatives", [{}])[0].get("transcript", "")
\* [0] raises IndexError on an empty list of alternatives.
transcript_raises(m) == m.has_channel /\ m.alts = <<>>
transcript_of(m) == IF m.has_channel THEN m.alts[1] ELSE <<>>

\* line 38: response.get("is_final", False)
is_final_of(m) == IF m.has_final THEN m.is_final ELSE FALSE

\* A notification that loses the finality flag: the fault C5 guards against.
Notification_interim(transcript, is_final) ==
    [type |-> "stt_transcript", text |-> transcript, isFinal |-> FALSE]

\* lines 41-45: the JSON object handed to client_ws.send_json.
Notification(transcript, is_final) ==
    [type |-> "stt_transcript", text |-> transcript, isFinal |-> is_final]

\* line 40: the test that decides whether a transcript is forwarded.
ShouldForward(transcript) == strip(transcript) # <<>>

\* lines 33-50, one iteration of `async for msg in dg_ws` on message m of
\* session s. sendOk: client_ws.send_json does not raise. The result is the
\* session afterwards. Every exception is caught at line 49 and ends the task.
receiver_iteration(s, m, sendOk) ==
    LET r == [s EXCEPT !.nread = @ + 1, !.last = m]
    IN  IF m.type = "TEXT"
        THEN IF json_loads_raises(m) \/ transcript_raises(m)
             THEN [r EXCEPT !.relay = "done"]
             ELSE IF ShouldForward(transcript_of(m))
                  THEN IF sendOk
                       THEN [r EXCEPT !.out = Append(@, Notification(transcript_of(m), is_final_of(m)))]
                       ELSE [r EXCEPT !.out = Append(@, Notification(transcript_of(m), is_final_of(m))),
                                      !.relay = "done"]
                  ELSE r
        ELSE IF m.type \in {"CLOSED", "ERROR"}
             THEN [r EXCEPT !.relay = "done", !.dg = "closed"]
             ELSE r

\* ---------------------------------------------------------------- the handler
\* A forwarding loop whose exit does not depend on the relay task having
\* finished: the fault C19 guards against.
TaskDone_always(s) == TRUE

\* task.done(): finished, by return or by a processed cancellation.
TaskDone(s) == s.relay \in {"done", "cancelled"}

\* A session exit without the `finally` of lines 104-112: the fault C3 guards against.
EnterFinally_no_teardown(c, e, ss) ==
    /\ sessions' = [sessions EXCEPT ![c] = ss]
    /\ exc' = [exc EXCEPT ![c] = e]
    /\ pc' = [pc EXCEPT ![c] = IF e = "none" THEN "wait_start" ELSE "done"]

\* A teardown that goes to the release of the ClientSession without closing
\* the upstream connection first: the fault C16 guards against.
EnterFinally_release_first(c, e, ss) ==
    LET rt == receiver_task[c]
        ss1 == IF rt # 0 /\ ~TaskDone(ss[rt])
               THEN [ss EXCEPT ![rt].relay = "cancelling"] ELSE ss
    IN  /\ sessions' = [sessions EXCEPT ![c] = ss1]
        /\ exc' = [exc EXCEPT ![c] = e]
        /\ pc' = [pc EXCEPT ![c] = "fin_release"]

\* lines 104-112 up to the first await: control enters the inner `finally`
\* with exception e ("none" on a normal exit of the forwarding loop) and ss as
\* the sessions of c. Line 106-107 cancels the task the local receiver_task
\* names if it is not done; line 108 decides whether dg_ws.close() is awaited.
EnterFinally(c, e, ss) ==
    LET rt == receiver_task[c]
        ss1 == IF rt # 0 /\ ~TaskDone(ss[rt])
               THEN [ss EXCEPT ![rt].relay = "cancelling"] ELSE ss
    IN  /\ sessions' = [sessions EXCEPT ![c] = ss1]
        /\ exc' = [exc EXCEPT ![c] = e]
        /\ pc' = [pc EXCEPT ![c] = IF ss1[Len(ss1)].dg = "open" THEN "fin_close" ELSE "fin_release"]

\* A handler exit that ends every connection of the process (what an
\* exception escaping to shared state would do): the fault C18 guards against.
Terminate_everyone(c, e) ==
    /\ pc' = [d \in Clients |-> "done"]
    /\ exc' = [d \in Clients |-> e]
    /\ inbox' = [d \in Clients |-> <<>>]

\* lines 114-119: an exception that leaves the `while True` is caught by the
\* outer try and the handler returns; the server then closes the client
\* connection, which discards the frames not yet read.
Terminate(c, e) ==
    /\ pc' = [pc EXCEPT ![c] = "done"]
    /\ exc' = [exc EXCEPT ![c] = e]
    /\ inbox' = [inbox EXCEPT ![c] = <<>>]

\* lines 63-73: the handler reads the next frame as text.
\*   disconnect            -> WebSocketDisconnect
\*   binary frame          -> KeyError (the frame has no text)
\*   text that is not JSON -> JSONDecodeError (line 64)
\*   JSON, not an object   -> AttributeError (line 66, data.get)
\*   other / no action     -> continue (line 67)
\*   start_transcription   -> dg_ws = None, a new aiohttp.ClientSession, ws_connect awaited
ReceiveText(c) ==
    /\ pc[c] = "wait_start"
    /\ inbox[c] # <<>>
    /\ LET m == Head(inbox[c])
       IN  IF m.t = "disconnect" THEN Terminate(c, "WebSocketDisconnect") /\ UNCHANGED sessions
           ELSE IF m.t = "bytes" THEN Terminate(c, "KeyError_text") /\ UNCHANGED sessions
           ELSE IF m.json = "garbage" THEN Terminate(c, "JSONDecodeError") /\ UNCHANGED sessions
           ELSE IF m.json # "object" THEN Terminate(c, "AttributeError") /\ UNCHANGED sessions
           ELSE /\ inbox' = [inbox EXCEPT ![c] = Tail(@)]
                /\ IF m.action # "start_transcription" THEN UNCHANGED <<pc, exc, sessions>>
                   ELSE /\ sessions' = [sessions EXCEPT ![c] = Append(@, NewSession)]
                        /\ pc' = [pc EXCEPT ![c] = "connect"]
                        /\ UNCHANGED exc
    /\ UNCHANGED <<clientGone, receiver_task, client_data_task, upq, nClient, nUp>>

\* lines 84-96: ws_connect returns; the relay task is created, the loop test of
\* line 90 is true (the task has not run yet), receive_bytes is wrapped in a
\* task and the handler suspends in asyncio.wait.
ConnectOk(c) ==
    /\ pc[c] = "connect"
    /\ sessions' = SetCur(c, [CurS(c) EXCEPT !.dg = "open", !.relay = "running"])
    /\ receiver_task' = [receiver_task EXCEPT ![c] = Cur(c)]
    /\ client_data_task' = [client_data_task EXCEPT ![c] = PendingTask]
    /\ upq' = [upq EXCEPT ![c] = <<>>]
    /\ pc' = [pc EXCEPT ![c] = "race"]
    /\ UNCHANGED <<exc, inbox, clientGone, nClient, nUp>>

\* line 84 raises: ws_connect fails (unreachable, credential rejected).
ConnectFail(c) ==
    /\ pc[c] = "connect"
    /\ EnterFinally(c, "ConnectError", sessions[c])
    /\ UNCHANGED <<inbox, clientGone, receiver_task, client_data_task, upq, nClient, nUp>>

\* The task of line 91 runs websocket.receive_bytes(): it takes the next client
\* frame. A binary frame is its result; a text frame has no bytes (KeyError);
\* a disconnect raises WebSocketDisconnect. The exception stays in the task.
ClientDataTaskRun(c) ==
    /\ client_data_task[c].st = "pending"
    /\ inbox[c] # <<>>
    /\ inbox' = [inbox EXCEPT ![c] = Tail(@)]
    /\ LET m == Head(inbox[c])
       IN  IF m.t = "bytes"
           THEN /\ client_data_task' = [client_data_task EXCEPT ![c] = [st |-> "done", frame |-> m.frame, exc |-> "none"]]
                /\ sessions' = SetCur(c, [CurS(c) EXCEPT !.recvd = Append(@, m.frame)])
           ELSE /\ client_data_task' = [client_data_task EXCEPT ![c] =
                        [st |-> "done", frame |-> 0,
                         exc |-> IF m.t = "text" THEN "KeyError_bytes" ELSE "WebSocketDisconnect"]]
                /\ UNCHANGED sessions
    /\ UNCHANGED <<pc, exc, clientGone, receiver_task, upq, nClient, nUp>>

\* The task of line 87 runs one iteration of deepgram_to_client_receiver.
\* send_json raises once the client has disconnected.
ReceiverRun(c) ==
    /\ sessions[c] # <<>>
    /\ CurS(c).relay = "running"
    /\ upq[c] # <<>>
    /\ sessions' = SetCur(c, receiver_iteration(CurS(c), Head(upq[c]), ~clientGone[c]))
    /\ upq' = [upq EXCEPT ![c] = Tail(@)]
    /\ UNCHANGED <<pc, exc, inbox, clientGone, receiver_task, client_data_task, nClient, nUp>>

\* A task cancelled at line 107 gets CancelledError at its suspension point the
\* next time the event loop runs it: it executes no further statement of its body.
ReceiverCancelled(c) ==
    /\ \E i \in 1..Len(sessions[c]) :
          /\ sessions[c][i].relay = "cancelling"
          /\ sessions' = [sessions EXCEPT ![c] = [@ EXCEPT ![i].relay = "cancelled"]]
    /\ UNCHANGED <<pc, exc, inbox, clientGone, receiver_task, client_data_task, upq, nClient, nUp>>

\* A send that loses the frame: the fault C4 guards against.
send_bytes_dropped(s, f) == s

\* line 99: dg_ws.send_bytes(frame) appends the frame to what upstream gets.
send_bytes(s, f) == [s EXCEPT !.sent = Append(@, f)]

\* A cancel() that is never issued: the fault C14 guards against.
cancel_forgotten(task) == task

\* line 102: client_data_task.cancel(). The task is suspended in
\* receive_bytes; it gets CancelledError there before it takes a frame, so it
\* never completes a receive.
cancel(task) == [task EXCEPT !.st = "cancelled"]

\* lines 93-102: asyncio.wait returns with at least one of the two tasks done.
\*   client_data_task in done: its result() re-raises what receive_bytes raised;
\*     otherwise the frame is sent upstream, which raises on a closed upstream
\*     connection and may raise on a broken one; send_bytes is awaited, so the
\*     loop test of line 90 comes in a later step;
\*   client_data_task in pending: it is cancelled, and since the relay task is
\*     then done the loop test fails right away and the `finally` is entered.
WaitReturn(c) ==
    /\ pc[c] = "race"
    /\ client_data_task[c].st = "done" \/ TaskDone(CurS(c))
    /\ IF client_data_task[c].st = "done"
       THEN /\ UNCHANGED client_data_task
            /\ IF client_data_task[c].exc # "none"
               THEN EnterFinally(c, client_data_task[c].exc, sessions[c])
               ELSE \E ok \in BOOLEAN :
                      IF ok /\ CurS(c).dg = "open"
                      THEN /\ sessions' = SetCur(c, send_bytes(CurS(c), client_data_task[c].frame))
                           /\ pc' = [pc EXCEPT ![c] = "loop_check"]
                           /\ UNCHANGED exc
                      ELSE EnterFinally(c, "SendError", sessions[c])
       ELSE /\ client_data_task' = [client_data_task EXCEPT ![c] = cancel(@)]
            /\ EnterFinally(c, "none", sessions[c])
    /\ UNCHANGED <<inbox, clientGone, receiver_task, upq, nClient, nUp>>

\* lines 90-93 after a frame was sent: leave the loop if the relay task is
\* done, else wrap the next receive_bytes in a task and wait again.
LoopCheck(c) ==
    /\ pc[c] = "loop_check"
    /\ IF TaskDone(CurS(c))
       THEN EnterFinally(c, "none", sessions[c]) /\ UNCHANGED client_data_task
       ELSE /\ client_data_task' = [client_data_task EXCEPT ![c] = PendingTask]
            /\ pc' = [pc EXCEPT ![c] = "race"]
            /\ UNCHANGED <<exc, sessions>>
    /\ UNCHANGED <<inbox, clientGone, receiver_task, upq, nClient, nUp>>

\* lines 108-109: dg_ws.close() is awaited. When it raises, lines 110-112 are
\* skipped and the exception goes to the outer try; whether the connection
\* then counts as closed is not determined.
CloseUpstream(c) ==
    /\ pc[c] = "fin_close"
    /\ upq' = [upq EXCEPT ![c] = <<>>]
    /\ \/ /\ sessions' = SetCur(c, [CurS(c) EXCEPT !.dg = "closed"])
          /\ pc' = [pc EXCEPT ![c] = "fin_release"]
          /\ UNCHANGED <<exc, inbox>>
       \/ /\ \E d \in {"open", "closed"} : sessions' = SetCur(c, [CurS(c) EXCEPT !.dg = d])
          /\ Terminate(c, "CloseError")
    /\ UNCHANGED <<clientGone, receiver_task, client_data_task, nClient, nUp>>

\* lines 110-112, then the end of the `finally`: the aiohttp session is closed;
\* without a pending exception the outer loop waits for the next start signal,
\* with one the exception reaches the outer try and the handler returns.
ReleaseSession(c) ==
    /\ pc[c] = "fin_release"
    /\ sessions' = SetCur(c, [CurS(c) EXCEPT !.http = "closed", !.releases = @ + 1])
    /\ upq' = [upq EXCEPT ![c] = <<>>]
    /\ IF exc[c] = "none"
       THEN pc' = [pc EXCEPT ![c] = "wait_start"] /\ UNCHANGED <<exc, inbox>>
       ELSE Terminate(c, exc[c])
    /\ UNCHANGED <<clientGone, receiver_task, client_data_task, nClient, nUp>>

\* ---------------------------------------------------------------- the environment
StartsPending(c) == Cardinality({i \in 1..Len(inbox[c]) : inbox[c][i] = StartSignal})

\* The client sends a text frame or a binary frame. The relay never looks into
\* a binary frame, so each one carries a content of its own (its number among
\* the client's frames): any loss, repetition or reordering shows.
ClientSend(c) ==
    /\ pc[c] \notin {"absent", "done"}
    /\ ~clientGone[c]
    /\ nClient[c] < MaxClientMsgs
    /\ Len(inbox[c]) < MaxInbox
    /\ \E m \in ClientTexts \cup {BytesFrame(nClient[c] + 1)} :
          /\ m = StartSignal => Len(sessions[c]) + StartsPending(c) < MaxSessions
          /\ inbox' = [inbox EXCEPT ![c] = Append(@, m)]
    /\ nClient' = [nClient EXCEPT ![c] = @ + 1]
    /\ UNCHANGED <<pc, exc, clientGone, sessions, receiver_task, client_data_task, upq, nUp>>

ClientDisconnect(c) ==
    /\ pc[c] \notin {"absent", "done"}
    /\ ~clientGone[c]
    /\ clientGone' = [clientGone EXCEPT ![c] = TRUE]
    /\ inbox' = [inbox EXCEPT ![c] = Append(@, DisconnectEvent)]
    /\ UNCHANGED <<pc, exc, sessions, receiver_task, client_data_task, upq, nClient, nUp>>

\* Upstream sends a message on the open connection; nothing follows a close
\* or an error. Only the relay reads upq and a message has no effect before it
\* is read, so a message is let in when the one before it has been read.
UpstreamEmit(c) ==
    /\ pc[c] \in {"race", "loop_check"}
    /\ CurS(c).dg = "open"
    /\ nUp[c] < MaxUpstreamMsgs
    /\ upq[c] = <<>>
    /\ \A i \in 1..Len(upq[c]) : upq[c][i].type \notin {"CLOSED", "ERROR"}
    /\ \E m \in UpstreamMsgs : upq' = [upq EXCEPT ![c] = Append(@, m)]
    /\ nUp' = [nUp EXCEPT ![c] = @ + 1]
    /\ UNCHANGED <<pc, exc, inbox, clientGone, sessions, receiver_task, client_data_task, nClient>>

\* ---------------------------------------------------------------- specification
\* After websocket.accept() (line 55) for the clients in `live`.
InitWith(live) ==
    /\ pc = [c \in Clients |-> IF c \in live THEN "wait_start" ELSE "absent"]
    /\ exc = [c \in Clients |-> "none"]
    /\ inbox = [c \in Clients |-> <<>>]
    /\ clientGone = [c \in Clients |-> FALSE]
    /\ sessions = [c \in Clients |-> <<>>]
    /\ receiver_task = [c \in Clients |-> 0]
    /\ client_data_task = [c \in Clients |-> NoTask]
    /\ upq = [c \in Clients |-> <<>>]
    /\ nClient = [c \in Clients |-> 0]
    /\ nUp = [c \in Clients |-> 0]

Init == InitWith({1})

Next ==
    \E c \in Clients :
        \/ ReceiveText(c)
        \/ ConnectOk(c)
        \/ ConnectFail(c)
        \/ ClientDataTaskRun(c)
        \/ ReceiverRun(c)
        \/ ReceiverCancelled(c)
        \/ WaitReturn(c)
        \/ LoopCheck(c)
        \/ CloseUpstream(c)
        \/ ReleaseSession(c)
        \/ ClientSend(c)
        \/ ClientDisconnect(c)
        \/ UpstreamEmit(c)

Spec == Init /\ [][Next]_vars

\* Two connections served at once: FastAPI runs one websocket_endpoint
\* coroutine per connection (line 53) on the same event loop. The two
\* clients share a traffic budget that is smaller than the one of Spec.
PairClientMsgs == 2     \* frames the two clients send together
PairUpstreamMsgs == 1   \* upstream messages to the two clients together
PairSessions == 1       \* start signals per client when two are connected

RECURSIVE Sum(_, _)
Sum(f, S) == IF S = {} THEN 0 ELSE LET x == CHOOSE y \in S : TRUE IN f[x] + Sum(f, S \ {x})

PairClientSend(c) ==
    /\ Sum(nClient, Clients) < PairClientMsgs
    /\ ClientSend(c)
    /\ Len(sessions[c]) + StartsPending(c)' <= PairSessions

PairUpstreamEmit(c) ==
    /\ Sum(nUp, Clients) < PairUpstreamMsgs
    /\ UpstreamEmit(c)

InitTwo == InitWith(Clients)

NextTwo ==
    \E c \in Clients :
        \/ ReceiveText(c)
        \/ ConnectOk(c)
        \/ ConnectFail(c)
        \/ ClientDataTaskRun(c)
        \/ ReceiverRun(c)
        \/ ReceiverCancelled(c)
        \/ WaitReturn(c)
        \/ LoopCheck(c)
        \/ CloseUpstream(c)
        \/ ReleaseSession(c)
        \/ PairClientSend(c)
        \/ ClientDisconnect(c)
        \/ PairUpstreamEmit(c)

SpecTwo == InitTwo /\ [][NextTwo]_vars

\* ================================================================ claims
SessionsOf(c) == 1..Len(sessions[c])

\* The handler of c is not inside a session: it waits for a start signal or
\* has returned.
Ended(c, i) == i < Len(sessions[c]) \/ pc[c] \in {"wait_start", "done"}

\* C1: when ws_connect raises after a start signal, the session delivers no
\* transcript and the client connection loop is not terminated by it (it can
\* still take a later start signal).
C1_ConnectFailureKeepsLoop ==
    \A c \in Clients :
        /\ \A i \in SessionsOf(c) : sessions[c][i].dg = "none" => sessions[c][i].out = <<>>
        /\ ~(pc[c] = "done" /\ exc[c] = "ConnectError")

\* C2: once a session has ended, its upstream connection is not open and its
\* aiohttp ClientSession has been released exactly once.
C2_ReleasedExactlyOnce ==
    \A c \in Clients : \A i \in SessionsOf(c) :
        /\ sessions[c][i].releases <= 1
        /\ Ended(c, i) => sessions[c][i].dg # "open" /\ sessions[c][i].releases = 1

\* C3: every session of a client except its newest one is Closed (upstream
\* connection not open, ClientSession released, relay task not running), so
\* at most one session per client is not Closed and a session is opened only
\* after the teardown of the one before it.
Closed(s) == s.dg # "open" /\ s.http = "closed" /\ s.relay \in {"none", "done", "cancelled"}
C3_AtMostOneOpenSession ==
    \A c \in Clients :
        /\ \A i \in SessionsOf(c) : i < Len(sessions[c]) => Closed(sessions[c][i])
        /\ Cardinality({i \in SessionsOf(c) : ~Closed(sessions[c][i])}) <= 1
C3_Witness ==
    /\ Len(sessions[1]) = 2
    /\ Closed(sessions[1][1]) /\ sessions[1][1].relay = "done"
    /\ sessions[1][2].dg = "open" /\ sessions[1][2].relay = "running"

\* C4: in every session the frames sent upstream are a prefix of the binary
\* frames received from the client, at most the newest frame is not yet sent,
\* and while the handler waits in the race with a pending receive every
\* received frame has been sent.
IsPrefix(a, b) == Len(a) <= Len(b) /\ a = SubSeq(b, 1, Len(a))
C4_FramesForwardedInOrder ==
    \A c \in Clients : \A i \in SessionsOf(c) :
        LET s == sessions[c][i]
        IN  /\ IsPrefix(s.sent, s.recvd)
            /\ Len(s.recvd) <= Len(s.sent) + 1
            /\ (i = Len(sessions[c]) /\ pc[c] = "race" /\ client_data_task[c].st = "pending")
                   => s.sent = s.recvd
C4_Witness ==
    \E i \in SessionsOf(1) : sessions[1][i].sent = <<2, 3>> /\ sessions[1][i].recvd = <<2, 3>>

\* C5: each upstream text message the relay reads whose first alternative's
\* transcript has a non-blank character adds exactly one stt_transcript
\* notification, with that text and that is_final, at the end of what the
\* client was sent; nothing else adds, removes or reorders notifications.
HasText(m) ==
    /\ m.type = "TEXT" /\ m.json = "object" /\ m.has_channel /\ m.alts # <<>>
    /\ \E k \in 1..Len(m.alts[1]) : m.alts[1][k] # Blank
ExpectedNotifications(m) ==
    IF HasText(m)
    THEN << [type |-> "stt_transcript", text |-> m.alts[1], isFinal |-> (m.has_final /\ m.is_final)] >>
    ELSE <<>>
C5_OneNotificationPerTranscript ==
    [][\A c \in Clients : \A i \in 1..Len(sessions'[c]) :
          IF i \in SessionsOf(c)
          THEN LET s == sessions[c][i]
                   t == sessions'[c][i]
               IN  IF t.nread = s.nread + 1
                   THEN t.out = s.out \o ExpectedNotifications(t.last)
                   ELSE t.nread = s.nread /\ t.out = s.out
          ELSE sessions'[c][i].nread = 0 /\ sessions'[c][i].out = <<>>]_vars
C5_Witness ==
    \E i \in SessionsOf(1) :
        /\ sessions[1][i].nread = 2
        /\ Len(sessions[1][i].out) = 2
        /\ ~sessions[1][i].out[1].isFinal /\ sessions[1][i].out[2].isFinal
        /\ sessions[1][i].out[1].text = <<Blank, "a">>

\* C6: a malformed upstream message (a payload that does not decode) does not
\* end the relay: after reading one the relay task is not finished.
C6_MalformedDoesNotEndRelay ==
    \A c \in Clients : \A i \in SessionsOf(c) :
        LET s == sessions[c][i]
        IN  (s.last.type = "TEXT" /\ s.last.json = "garbage") => s.relay # "done"

\* C7: a failure of dg_ws.send_bytes is caught at the session boundary: it
\* never terminates the client connection loop.
C7_SendFailureKeepsLoop ==
    \A c \in Clients : ~(pc[c] = "done" /\ exc[c] = "SendError")

\* C8: when the upstream stream has closed during a session (the relay read a
\* close or an error) and the client stays connected, the teardown of that
\* session ends with the loop waiting for the next start signal.
InTeardown(c) == pc[c] \in {"fin_close", "fin_release"}
UpstreamStreamClosed(s) == s.last.type \in {"CLOSED", "ERROR"}
C8_UpstreamCloseReturnsToWaiting ==
    [][\A c \in Clients :
          (/\ InTeardown(c) /\ UpstreamStreamClosed(CurS(c))
           /\ ~clientGone'[c]
           /\ pc'[c] \notin {"fin_close", "fin_release"})
          => pc'[c] = "wait_start"]_vars

\* C9: while no session is active, a client frame that is not a valid start
\* signal is ignored: reading it opens no session and leaves the loop waiting.
C9_NonStartIgnored ==
    [][\A c \in Clients :
          (/\ pc[c] = "wait_start" /\ inbox[c] # <<>>
           /\ Head(inbox[c]).t # "disconnect" /\ Head(inbox[c]) # StartSignal
           /\ Len(inbox'[c]) < Len(inbox[c]))
          => pc'[c] = "wait_start" /\ sessions'[c] = sessions[c]]_vars

\* C10: reading an upstream text message whose first alternative's transcript
\* is empty or all blanks hands no notification to the client and leaves the
\* relay task running.
BlankTranscript(m) ==
    /\ m.type = "TEXT" /\ m.json = "object" /\ m.has_channel /\ m.alts # <<>>
    /\ \A k \in 1..Len(m.alts[1]) : m.alts[1][k] = Blank
C10_BlankTranscriptSilent ==
    [][\A c \in Clients : \A i \in SessionsOf(c) :
          (/\ sessions'[c][i].nread = sessions[c][i].nread + 1
           /\ BlankTranscript(sessions'[c][i].last))
          => /\ sessions'[c][i].out = sessions[c][i].out
             /\ sessions'[c][i].relay = "running"]_vars
C10_Witness ==
    \E i \in SessionsOf(1) :
        /\ sessions[1][i].last = UpText(<< <<Blank>>, <<"a">> >>, TRUE, TRUE)
        /\ sessions[1][i].out = <<>>
        /\ sessions[1][i].relay = "running"

\* C11: when the receive of a session ends with the client's disconnect, the
\* handler returns only after that session is torn down (relay task not left
\* running, upstream connection not open, ClientSession released); once the
\* handler has returned it stays returned and opens no session and no upstream
\* connection.
DisconnectedInSession(c) == client_data_task[c].exc = "WebSocketDisconnect"
TornDown(s) == s.relay # "running" /\ s.dg # "open" /\ s.http = "closed" /\ s.releases = 1
C11_DisconnectTearsDownThenEnds ==
    [][\A c \in Clients :
          /\ (pc'[c] = "done" /\ DisconnectedInSession(c)) => TornDown(sessions'[c][Len(sessions'[c])])
          /\ pc[c] = "done" =>
                /\ pc'[c] = "done"
                /\ Len(sessions'[c]) = Len(sessions[c])
                /\ \A i \in SessionsOf(c) : sessions'[c][i].dg = "open" => sessions[c][i].dg = "open"]_vars

\* C12: a start signal that arrives while a session is active raises nothing
\* in the handler: the receive that takes it ends without an exception, so it
\* ends neither the session nor the client connection loop.
StartTakenInSession(c) ==
    /\ client_data_task[c].st = "pending" /\ inbox[c] # <<>> /\ Head(inbox[c]) = StartSignal
    /\ client_data_task'[c].st = "done"
C12_StartWhileActiveHarmless ==
    [][\A c \in Clients :
          /\ StartTakenInSession(c) => client_data_task'[c].exc = "none"
          /\ (pc[c] \in {"race", "loop_check"} /\ client_data_task[c].exc = "none"
              /\ client_data_task'[c].exc = "none")
                => Len(sessions'[c]) = Len(sessions[c])]_vars

\* C13: the ClientSession of a session is released even when closing the
\* upstream connection raised.
C13_ReleasedWhenCloseFails ==
    \A c \in Clients : (pc[c] = "done" /\ exc[c] = "CloseError") => CurS(c).releases = 1

RelayFailed(s) == s.relay = "done" /\ s.last.type = "TEXT"
C15_RelayFailureKeepsLoop ==
    [][\A c \in Clients :
          /\ \A i \in SessionsOf(c) :
                (~RelayFailed(sessions[c][i]) /\ RelayFailed(sessions'[c][i]))
                    => pc'[c] = pc[c] /\ exc'[c] = exc[c]
          /\ (sessions[c] # <<>> /\ RelayFailed(CurS(c)) /\ ~clientGone'[c] /\ pc[c] # "done")
                => pc'[c] # "done"]_vars

\* C16: the teardown runs in the order cancel, close, release: the relay is
\* asked to cancel only while it is running, the upstream connection is closed
\* by the handler only when it is open and the relay is no longer running,
\* and the ClientSession is released only when the upstream connection is not
\* open; no released session has an open upstream connection.
C16_TeardownOrder ==
    [][\A c \in Clients : \A i \in SessionsOf(c) :
          LET s == sessions[c][i]
              t == sessions'[c][i]
          IN  /\ (t.relay = "cancelling" /\ s.relay # "cancelling")
                    => s.relay = "running" /\ s.dg = t.dg /\ s.http = "open" /\ t.http = "open"
              /\ (pc[c] = "fin_close" /\ i = Cur(c))
                    => s.dg = "open" /\ s.relay # "running" /\ s.http = "open" /\ t.http = "open"
              /\ t.releases # s.releases
                    => /\ t.releases = s.releases + 1 /\ t.http = "closed"
                       /\ s.dg # "open" /\ t.dg # "open" /\ s.relay # "running"
              /\ t.http = "closed" => t.dg # "open"]_vars
C16_Witness ==
    /\ sessions[1] # <<>>
    /\ pc[1] = "done" /\ exc[1] = "WebSocketDisconnect"
    /\ CurS(1).relay = "cancelled" /\ CurS(1).dg = "closed"
    /\ CurS(1).http = "closed" /\ CurS(1).releases = 1

\* C17: a start signal read while the loop waits opens exactly one session,
\* fresh (no upstream connection, no relay task, a new unreleased
\* ClientSession, no history); sessions are opened by nothing else; each
\* session makes one ws_connect attempt, which alone can open its upstream
\* connection and start its relay task, and the handler's receiver_task then
\* names that session's task.
Fresh(s) ==
    /\ s.dg = "none" /\ s.relay = "none" /\ s.http = "open" /\ s.releases = 0
    /\ s.recvd = <<>> /\ s.sent = <<>> /\ s.nread = 0 /\ s.out = <<>>
StartRead(c) ==
    /\ pc[c] = "wait_start" /\ inbox[c] # <<>> /\ Head(inbox[c]) = StartSignal
    /\ Len(inbox'[c]) < Len(inbox[c])
C17_StartOpensOneFreshSession ==
    [][\A c \in Clients :
          /\ StartRead(c) =>
                /\ Len(sessions'[c]) = Len(sessions[c]) + 1
                /\ Fresh(sessions'[c][Len(sessions'[c])])
                /\ \A i \in SessionsOf(c) : sessions'[c][i] = sessions[c][i]
                /\ pc'[c] = "connect"
          /\ Len(sessions'[c]) # Len(sessions[c]) => StartRead(c)
          /\ pc'[c] = "connect" => pc[c] = "connect" \/ StartRead(c)
          /\ (pc[c] = "connect" /\ pc'[c] # "connect") =>
                /\ CurS(c).dg = "none" /\ CurS(c).relay = "none"
                /\ pc'[c] = "race" => receiver_task'[c] = Cur(c)
          /\ \A i \in SessionsOf(c) :
                LET s == sessions[c][i]
                    t == sessions'[c][i]
                IN  /\ (t.dg = "open" /\ s.dg # "open") => s.dg = "none" /\ i = Cur(c) /\ pc[c] = "connect"
                    /\ (t.relay = "running" /\ s.relay # "running")
                           => s.relay = "none" /\ i = Cur(c) /\ pc[c] = "connect"]_vars
C17_Witness ==
    /\ pc[1] = "connect" /\ Len(sessions[1]) = 2
    /\ Fresh(sessions[1][2])
    /\ Closed(sessions[1][1]) /\ sessions[1][1].releases = 1 /\ sessions[1][1].sent # <<>>

\* C19: the relay of a session hands notifications to the client only while
\* that session is the client's current one and the loop is not waiting for a
\* start signal; whenever the loop is about to wait for a start signal every
\* relay task of the client has finished.
C19_NoTranscriptWhileWaiting ==
    [][\A c \in Clients :
          /\ \A i \in SessionsOf(c) :
                sessions'[c][i].out # sessions[c][i].out
                    => i = Cur(c) /\ pc[c] # "wait_start" /\ pc'[c] # "wait_start"
          /\ pc'[c] = "wait_start" =>
                \A i \in 1..Len(sessions'[c]) : sessions'[c][i].relay \in {"done", "cancelled"}]_vars
C19_Witness ==
    /\ pc[1] = "wait_start" /\ Len(sessions[1]) = 1
    /\ sessions[1][1].relay = "done" /\ Len(sessions[1][1].out) = 2

\* C20: when asyncio.wait returns with both the receive and the relay task
\* finished, the received frame is handed to dg_ws.send_bytes before the loop
\* condition is looked at: either it is added to what was sent upstream, or
\* the send raises and the session ends with that exception; it is never
\* dropped without one of the two.
BothDone(c) ==
    /\ pc[c] = "race"
    /\ client_data_task[c].st = "done" /\ client_data_task[c].exc = "none"
    /\ CurS(c).relay \in {"done", "cancelled"}
C20_FrameSentAfterRelayEnd ==
    [][\A c \in Clients :
          (BothDone(c) /\ pc'[c] # "race") =>
              \/ /\ pc'[c] = "loop_check" /\ exc'[c] = exc[c]
                 /\ sessions'[c][Cur(c)].sent = Append(CurS(c).sent, client_data_task[c].frame)
              \/ /\ pc'[c] \in {"fin_close", "fin_release"} /\ exc'[c] = "SendError"
                 /\ sessions'[c][Cur(c)].sent = CurS(c).sent]_vars
C20_Witness ==
    /\ sessions[1] # <<>>
    /\ exc[1] = "SendError" /\ CurS(1).relay = "done"
    /\ CurS(1).last.type = "CLOSED" /\ CurS(1).dg = "closed"
    /\ Len(CurS(1).recvd) = Len(CurS(1).sent) + 1

\* C18: with two connections served at once, every step changes the state of
\* at most one of them: the other's handler position and exception, sessions
\* (upstream connection, relay task, frames, delivered notifications), tasks
\* and queues stay as they are; in particular no step of one connection ends
\* the other's handler.
SameFor(d) ==
    /\ pc'[d] = pc[d] /\ exc'[d] = exc[d] /\ sessions'[d] = sessions[d]
    /\ receiver_task'[d] = receiver_task[d] /\ client_data_task'[d] = client_data_task[d]
    /\ inbox'[d] = inbox[d] /\ upq'[d] = upq[d] /\ clientGone'[d] = clientGone[d]
    /\ nClient'[d] = nClient[d] /\ nUp'[d] = nUp[d]
C18_ConnectionsIndependent ==
    [][\E c \in Clients : \A d \in Clients \ {c} : SameFor(d)]_vars
C18_Witness ==
    /\ pc[1] = "done" /\ exc[1] = "ConnectError" /\ sessions[1] # <<>>
    /\ pc[2] = "race" /\ sessions[2] # <<>>
    /\ CurS(2).dg = "open" /\ CurS(2).relay = "running"
    /\ CurS(2).out # <<>>
====
